---- MODULE Spec2Model ----
(***************************************************************************)
(* A model of the TuningSearch MCP server (src/index.ts): the start-up of  *)
(* the process, the two tool handlers (search, quota) with their outbound   *)
(* HTTP calls, and the text they return.                                    *)
(*                                                                          *)
(* A string is modelled as a sequence of atoms.  Where the code works on    *)
(* characters (the URL query string, number-to-string conversions) an atom  *)
(* is one character; where it only concatenates, an atom is one literal     *)
(* piece of the template or one value taken from the input.                 *)
(* An optional value (undefined in the code) is <<>>; a present value v is  *)
(* <<v>>.                                                                   *)
(***************************************************************************)
EXTENDS Integers, Sequences, FiniteSets, TLC

VARIABLES
    env,        \* process.env.TUNINGSEARCH_API_KEY: <<>> (unset) or <<string>>
    proc,       \* "loaded" | "connecting" | "serving" | "exited"
    exitCode,   \* <<>> while running, <<n>> after process.exit(n)
    startKey,   \* the apiKey local of startServer: <<>> before it ran, else <<env value>>
    calls       \* calls[c]: the c-th tool invocation of this process

vars == <<env, proc, exitCode, startKey, calls>>

\* ------------------------------------------------------------------ bounds
MaxCalls == 2        \* tool invocations in one execution
MaxQueryLen == 2     \* characters of a search query
MaxPage == 2         \* largest page number tried
MaxResults == 2      \* result items in a provider reply
MaxSuggestions == 2  \* suggestions in a provider reply
MaxQuota == 2        \* index of the largest quota counter tried

CallIds == 1..MaxCalls

\* ------------------------------------------------------------- optionals
None == <<>>
Some(v) == <<v>>
Get(o) == o[1]

\* JavaScript falsiness of an optional string held as one atom, of an
\* optional string held as characters, and of an optional number.
FalsyStr(o) == o = None \/ Get(o) = ""
FalsyChars(o) == o = None \/ Get(o) = <<>>
FalsyNum(o) == o = None \/ Get(o) = 0

\* ---------------------------------------------------------------- strings
\* Array.prototype.join on an array of strings.
RECURSIVE Join(_, _)
Join(ss, sep) ==
    IF ss = <<>> THEN <<>>
    ELSE IF Len(ss) = 1 THEN ss[1]
    ELSE ss[1] \o sep \o Join(Tail(ss), sep)

DigitChar == <<"0", "1", "2", "3", "4", "5", "6", "7", "8", "9">>

\* Number.prototype.toString for an integer: its decimal digits, most
\* significant first, with a leading "-" for a negative one.
RECURSIVE NatDigits(_)
NatDigits(n) ==
    IF n < 10 THEN <<DigitChar[n + 1]>>
    ELSE NatDigits(n \div 10) \o <<DigitChar[(n % 10) + 1]>>

IntToString(n) == IF n < 0 THEN <<"-">> \o NatDigits(0 - n) ELSE NatDigits(n)

\* ------------------------------------------------------------- constants
SUPPORTED_LANGUAGES ==
    { <<"e", "n">>, <<"z", "h">>, <<"z", "h", "-", "C", "N">>,
      <<"z", "h", "-", "T", "W">>, <<"f", "r">>, <<"d", "e">>,
      <<"j", "a">>, <<"k", "o">>, <<"e", "s">> }

TIME_RANGES ==
    { <<"d", "a", "y">>, <<"w", "e", "e", "k">>,
      <<"m", "o", "n", "t", "h">>, <<"y", "e", "a", "r">> }

SAFE_LEVELS == {0, 1, 2}

API_BASE_URL == <<"https://api.tuningsearch.com">>

\* ------------------------------------------------ URLSearchParams.toString
\* The application/x-www-form-urlencoded serializer: a space becomes "+",
\* letters, digits and * - . _ stay, every other byte becomes %XX.
Unreserved ==
    { "a", "b", "c", "d", "e", "f", "g", "h", "i", "j", "k", "l", "m", "n",
      "o", "p", "q", "r", "s", "t", "u", "v", "w", "x", "y", "z",
      "A", "B", "C", "D", "E", "F", "G", "H", "I", "J", "K", "L", "M", "N",
      "O", "P", "Q", "R", "S", "T", "U", "V", "W", "X", "Y", "Z",
      "0", "1", "2", "3", "4", "5", "6", "7", "8", "9", "*", "-", ".", "_" }

\* The two hexadecimal digits of the ASCII code of the characters the model
\* uses outside Unreserved.
HexOf(c) ==
    CASE c = "&" -> <<"2", "6">>
      [] c = "=" -> <<"3", "D">>
      [] c = "+" -> <<"2", "B">>
      [] c = "%" -> <<"2", "5">>
      [] c = "?" -> <<"3", "F">>
      [] c = "#" -> <<"2", "3">>

UrlEncodeChar(c) ==
    IF c = " " THEN <<"+">>
    ELSE IF c \in Unreserved THEN <<c>>
    ELSE <<"%">> \o HexOf(c)

RECURSIVE UrlEncode(_)
UrlEncode(s) == IF s = <<>> THEN <<>> ELSE UrlEncodeChar(Head(s)) \o UrlEncode(Tail(s))

\* params: a sequence of <<name, value>> pairs, in append order.
SerializePair(p) == UrlEncode(p[1]) \o <<"=">> \o UrlEncode(p[2])

ParamsToString(params) ==
    Join([i \in 1..Len(params) |-> SerializePair(params[i])], <<"&">>)

\* --------------------------------------------------------------- search()
\* lines 93-101: the parameter list search() appends.
\* options is always passed by the handler, so `if (options)` is taken.
\* A variant of SafeFlag that passes the level through.
SafeFlag_Raw(safe) == IntToString(safe)

SafeFlag(safe) == IF safe # 0 THEN <<"1">> ELSE <<"0">>

\* A variant of SearchParams that appends `safe` even when it was not given
\* (as `safe=0`).
SearchParams_SafeAlways(req) ==
    <<  <<<<"q">>, req.query>>  >>
    \o (IF ~FalsyChars(req.language)
        THEN << <<<<"l","a","n","g","u","a","g","e">>, Get(req.language)>> >> ELSE <<>>)
    \o (IF ~FalsyNum(req.page)
        THEN << <<<<"p","a","g","e">>, IntToString(Get(req.page))>> >> ELSE <<>>)
    \o << <<<<"s","a","f","e">>,
            IF req.safe # None /\ Get(req.safe) # 0 THEN <<"1">> ELSE <<"0">>>> >>
    \o (IF ~FalsyChars(req.time_range)
        THEN << <<<<"t","i","m","e","_","r","a","n","g","e">>, Get(req.time_range)>> >> ELSE <<>>)

SearchParams(req) ==
    <<  <<<<"q">>, req.query>>  >>
    \o (IF ~FalsyChars(req.language)
        THEN << <<<<"l","a","n","g","u","a","g","e">>, Get(req.language)>> >> ELSE <<>>)
    \o (IF ~FalsyNum(req.page)
        THEN << <<<<"p","a","g","e">>, IntToString(Get(req.page))>> >> ELSE <<>>)
    \o (IF req.safe # None
        THEN << <<<<"s","a","f","e">>, SafeFlag(Get(req.safe))>> >> ELSE <<>>)
    \o (IF ~FalsyChars(req.time_range)
        THEN << <<<<"t","i","m","e","_","r","a","n","g","e">>, Get(req.time_range)>> >> ELSE <<>>)

AuthHeader(apiKey) == <<"Bearer ", apiKey>>

\* lines 88-106: the request search() hands to fetch.
SearchHttpRequest(req, apiKey) ==
    [ method |-> "GET",
      base |-> API_BASE_URL,
      path |-> "/v1/search",
      query |-> ParamsToString(SearchParams(req)),
      authorization |-> AuthHeader(apiKey),
      contentType |-> "application/json" ]

\* lines 119-127: the request getQuota() hands to fetch.
QuotaHttpRequest(apiKey) ==
    [ method |-> "GET",
      base |-> API_BASE_URL,
      path |-> "/v1/me/quota",
      query |-> <<>>,
      authorization |-> AuthHeader(apiKey),
      contentType |-> "application/json" ]

\* ------------------------------------------------------------- exceptions
\* The outcome of evaluating a block of code: a value, or a thrown Error with
\* its message.
Ok(v) == [ok |-> TRUE, val |-> v, err |-> <<>>]
Throw(msg) == [ok |-> FALSE, val |-> <<>>, err |-> msg]

\* The messages of the TypeErrors the engine raises; their wording is the
\* engine's, so each is one atom.
TypeErrorNullBody == <<"TypeError: cannot read property 'data' of null">>
TypeErrorNoResult == <<"TypeError: cannot read property 'results' of undefined">>
TypeErrorNoMap == <<"TypeError: cannot read property 'map' of undefined">>
TypeErrorNoPlan == <<"TypeError: cannot read property 'name' of undefined">>
TypeErrorNoQuota == <<"TypeError: cannot read property 'monthlyQuota' of undefined">>
TypeErrorNoFeatures == <<"TypeError: cannot read property 'qps' of undefined">>

\* response.ok of the fetch API: the status is in 200..299.
ResponseOk(status) == status >= 200 /\ status <= 299

\* A variant of SearchAfterFetch whose failure message leaves the status out.
SearchAfterFetch_NoStatus(o) ==
    IF o.kind = "reject" THEN Throw(<<o.message>>)
    ELSE IF ~ResponseOk(o.status)
    THEN Throw(<<"Search request failed: ", o.statusText>>)
    ELSE Ok(TRUE)

\* lines 103-110: search() when its fetch settles.  Ok(TRUE) stands for
\* "go on to response.json()".
SearchAfterFetch(o) ==
    IF o.kind = "reject" THEN Throw(<<o.message>>)
    ELSE IF ~ResponseOk(o.status)
    THEN Throw(<<"Search request failed: ">> \o IntToString(o.status)
               \o <<" ", o.statusText>>)
    ELSE Ok(TRUE)

\* lines 129-131: the same for getQuota().
QuotaAfterFetch(o) ==
    IF o.kind = "reject" THEN Throw(<<o.message>>)
    ELSE IF ~ResponseOk(o.status)
    THEN Throw(<<"Quota request failed: ">> \o IntToString(o.status)
               \o <<" ", o.statusText>>)
    ELSE Ok(TRUE)

\* lines 112-113 and 133-134: response.json() settles, then `data.data`.
\* b.kind: "syntaxError" (the body is not JSON), "null" (the body is the JSON
\* null), "object" (b.data is the optional `data` member).
AfterJson(b) ==
    IF b.kind = "syntaxError" THEN Throw(<<b.message>>)
    ELSE IF b.kind = "null" THEN Throw(TypeErrorNullBody)
    ELSE Ok(b.data)

\* ------------------------------------------------------ tool responses
\* The object a handler returns.  isError = FALSE stands for the success
\* object, which has no isError member.
ToolResult(text, isError) ==
    [content |-> <<[type |-> "text", text |-> text]>>, isError |-> isError]

NoKeyText == <<"Error: TUNINGSEARCH_API_KEY environment variable is not set">>

\* `${x}` of an optional string: "undefined" when it is absent.
Interp(o) == IF o = None THEN <<"undefined">> ELSE <<Get(o)>>

\* line 191: the block of one result item.
ItemBlock(item) ==
    <<"Title: ", item.title, "\n", "Content: ", item.content, "\n",
      "Link: ", item.url>>

\* lines 190-192.
FormattedResults(results) ==
    Join([i \in 1..Len(results) |-> ItemBlock(results[i])], <<"\n\n">>)

\* A variant of SuggestionsSuffix that tests only that the list is there.
SuggestionsSuffix_NoLengthTest(suggestions) ==
    IF suggestions # None
    THEN <<"\n\n", "Suggested queries: ">>
         \o Join([i \in 1..Len(Get(suggestions)) |-> <<Get(suggestions)[i]>>], <<", ">>)
    ELSE <<>>

\* lines 199-201.
SuggestionsSuffix(suggestions) ==
    IF suggestions # None /\ Len(Get(suggestions)) > 0
    THEN <<"\n\n", "Suggested queries: ">>
         \o Join([i \in 1..Len(Get(suggestions)) |-> <<Get(suggestions)[i]>>], <<", ">>)
    ELSE <<>>

\* A variant of SearchText that puts the blank line only before a block.
SearchText_SeparatorPerBlock(result) ==
    <<"Query: \"">> \o Interp(result.query) \o <<"\"">>
    \o (IF Len(Get(result.results)) > 0 THEN <<"\n\n">> ELSE <<>>)
    \o FormattedResults(Get(result.results))
    \o SuggestionsSuffix(result.suggestions)

\* line 198: the text of a successful search response.
SearchText(result) ==
    <<"Query: \"">> \o Interp(result.query) \o <<"\"", "\n\n">>
    \o FormattedResults(Get(result.results))
    \o SuggestionsSuffix(result.suggestions)

\* lines 189-205: what the handler's try block does with the value of
\* search(): data is the optional `data` member of the body.
FormatSearch(data) ==
    IF data = None THEN Throw(TypeErrorNoResult)
    ELSE IF Get(data).results = None THEN Throw(TypeErrorNoMap)
    ELSE Ok(SearchText(Get(data)))

\* ------------------------------------------------------------ JS numbers
\* A JavaScript number of the quota arithmetic: an integer or one of the
\* non-finite values a division by zero yields.
Num(n) == [t |-> "num", v |-> n]
NaN == [t |-> "NaN", v |-> 0]
Infinity == [t |-> "Infinity", v |-> 0]
NegInfinity == [t |-> "-Infinity", v |-> 0]

\* line 255: Math.round((used / total) * 100).  Division by zero does not
\* throw: 0/0 is NaN, x/0 is +-Infinity, and Math.round keeps them.
\* Math.round rounds half up; for total > 0 that is
\* floor((200*used + total) / (2*total)).
UsagePercent(used, total) ==
    IF total = 0
    THEN (IF used = 0 THEN NaN ELSE IF used > 0 THEN Infinity ELSE NegInfinity)
    ELSE Num((200 * used + total) \div (2 * total))

\* `${n}` of a JavaScript number.
NumToString(n) == IF n.t = "num" THEN IntToString(n.v) ELSE <<n.t>>

\* line 258: new Date(updatedAt).toLocaleString().  The rendering depends on
\* the locale and time zone of the host, so it is one opaque atom per
\* timestamp; an absent or unparsable timestamp renders as "Invalid Date".
ToLocaleString(updatedAt) ==
    IF updatedAt = None THEN <<"Invalid Date">>
    ELSE <<"LocaleString(", Get(updatedAt), ")">>

\* lines 249-258: the text of a successful quota response.
QuotaText(info) ==
    LET q == Get(info.quota)
        p == Get(info.plan)
    IN  <<"TuningSearch Quota Information:\n            \n", "Plan: ", p.name, "\n">>
        \o <<"Monthly Quota: ">> \o IntToString(q.monthlyQuota) \o <<" queries", "\n">>
        \o <<"Used Quota: ">> \o IntToString(q.usedQuota) \o <<" queries", "\n">>
        \o <<"Remaining Quota: ">> \o IntToString(q.totalQuota - q.usedQuota)
        \o <<" queries", "\n">>
        \o <<"Quota Usage: ">> \o NumToString(UsagePercent(q.usedQuota, q.totalQuota))
        \o <<"%", "\n">>
        \o <<"QPS Limit: ">> \o IntToString(Get(p.features).qps)
        \o <<" queries per second", "\n\n">>
        \o <<"Last Updated: ">> \o ToLocaleString(q.updatedAt)

\* lines 245-261: what the handler's try block does with the value of
\* getQuota().  The template reads plan.name first, then the quota members,
\* then plan.features.qps.
FormatQuota(data) ==
    IF data = None THEN Throw(TypeErrorNoPlan)
    ELSE IF Get(data).plan = None THEN Throw(TypeErrorNoPlan)
    ELSE IF Get(data).quota = None THEN Throw(TypeErrorNoQuota)
    ELSE IF Get(Get(data).plan).features = None THEN Throw(TypeErrorNoFeatures)
    ELSE Ok(QuotaText(Get(data)))

\* ------------------------------------------------- the handlers' endings
\* How an invocation of a handler ends: the object it returns, whether an
\* exception left the handler, and whether it wrote to the error stream.
Returned(resp, logged) == [result |-> <<resp>>, threw |-> FALSE, logged |-> logged]

\* lines 165-175 and 229-239.
NoKeyEnd == Returned(ToolResult(NoKeyText, TRUE), FALSE)

\* A variant of SearchEnd without the catch: a failure leaves the handler.
SearchEnd_NoCatch(r) ==
    IF r.ok THEN Returned(ToolResult(r.val, FALSE), FALSE)
    ELSE [result |-> <<>>, threw |-> TRUE, logged |-> FALSE]

\* lines 177-217: the try/catch of the search handler around outcome r.
SearchEnd(r) ==
    IF r.ok THEN Returned(ToolResult(r.val, FALSE), FALSE)
    ELSE Returned(ToolResult(<<"Search error: ">> \o r.err, TRUE), TRUE)

\* lines 241-273: the try/catch of the quota handler around outcome r.
QuotaEnd(r) ==
    IF r.ok THEN Returned(ToolResult(r.val, FALSE), FALSE)
    ELSE Returned(ToolResult(<<"Quota check error: ">> \o r.err, TRUE), TRUE)

\* ---------------------------------------------------------------- inputs
\* The values the environment variable takes: unset, empty, or a key.
EnvValues == {None, Some(""), Some("k1"), Some("k2")}

SeqsUpTo(S, n) == UNION {[1..k -> S] : k \in 0..n}
Opt(S) == {None} \cup {Some(v) : v \in S}

\* The characters of the queries tried: a letter, a space and two characters
\* the serializer must escape.
QueryChars == {"a", " ", "&", "%"}

\* The arguments the schema of the search tool lets through (lines 153-160):
\* any string as query, any number as page (0 included), the two enums and
\* the three safe levels, every one but the query optional.
SearchRequests ==
    [ query : SeqsUpTo(QueryChars, MaxQueryLen),
      language : Opt(SUPPORTED_LANGUAGES),
      page : Opt(0..MaxPage),
      safe : Opt(SAFE_LEVELS),
      time_range : Opt(TIME_RANGES) ]

\* One of them, for the executions with several calls in flight and for
\* those that vary the provider's reply.
SampleRequests ==
    { [query |-> <<"a", " ">>, language |-> Some(<<"e", "n">>), page |-> Some(1),
       safe |-> Some(2), time_range |-> None] }

\* What fetch settles with: a rejection (network, DNS) or a response.
Reject(m) == [kind |-> "reject", status |-> 0, statusText |-> "", message |-> m]
Response(s, t) == [kind |-> "response", status |-> s, statusText |-> t, message |-> ""]

FetchOutcomes ==
    { Reject("fetch failed"), Response(200, "OK"), Response(299, ""),
      Response(199, ""), Response(300, "Multiple Choices"),
      Response(404, "Not Found"), Response(500, "Internal Server Error") }

SampleFetchOutcomes ==
    { Reject("fetch failed"), Response(200, "OK"),
      Response(500, "Internal Server Error") }

\* What response.json() settles with.
SyntaxErrorBody ==
    [kind |-> "syntaxError", message |-> "SyntaxError: Unexpected token", data |-> None]
NullBody == [kind |-> "null", message |-> "", data |-> None]
ObjectBody(data) == [kind |-> "object", message |-> "", data |-> data]

Items ==
    { [title |-> "T1", url |-> "U1", content |-> "C1"],
      [title |-> "T2", url |-> "U2", content |-> "C2"] }

SearchDatas ==
    [ query : Opt({"x"}),
      results : Opt(SeqsUpTo(Items, MaxResults)),
      suggestions : Opt(SeqsUpTo({"s1", "s2"}, MaxSuggestions)) ]

SearchBodies ==
    {SyntaxErrorBody, NullBody} \cup {ObjectBody(d) : d \in Opt(SearchDatas)}

SampleSearchBodies ==
    { SyntaxErrorBody, ObjectBody(None),
      ObjectBody(Some([query |-> Some("x"),
                       results |-> Some(<<[title |-> "T1", url |-> "U1",
                                            content |-> "C1"]>>),
                       suggestions |-> Some(<<"s1">>)])) }

Quotas ==
    [ monthlyQuota : 0..MaxQuota, usedQuota : 0..MaxQuota, totalQuota : 0..MaxQuota,
      updatedAt : Opt({"2024-01-01T00:00:00Z"}) ]

Plans == [ name : {"free"}, features : Opt([qps : {1}]) ]

QuotaDatas == [ quota : Opt(Quotas), plan : Opt(Plans) ]

QuotaBodies ==
    {SyntaxErrorBody, NullBody} \cup {ObjectBody(d) : d \in Opt(QuotaDatas)}

SampleQuotaBodies ==
    { SyntaxErrorBody, ObjectBody(None),
      ObjectBody(Some([quota |-> Some([monthlyQuota |-> 2, usedQuota |-> 1,
                                       totalQuota |-> 2,
                                       updatedAt |-> Some("2024-01-01T00:00:00Z")]),
                       plan |-> Some([name |-> "free", features |-> Some([qps |-> 1])])])) }

\* ----------------------------------------------------------------- state
IdleCall ==
    [ pc |-> "idle",       \* "idle" | "awaitFetch" | "awaitJson" | "done"
      tool |-> "none",     \* "search" | "quota"
      req |-> None,        \* the arguments of a search call
      apiKey |-> None,     \* the handler's apiKey local
      sent |-> <<>>,       \* the HTTP requests the call handed to fetch
      fetched |-> None,    \* what its fetch settled with
      body |-> None,       \* what its response.json() settled with
      result |-> <<>>,     \* the objects the handler returned
      threw |-> FALSE,     \* an exception left the handler
      logged |-> FALSE ]   \* the handler wrote to the error stream

\* lines 7-8, 137-353: the module is loaded, dotenv has filled process.env,
\* the tools are registered, startServer has not run yet.
Init ==
    /\ env \in EnvValues
    /\ proc = "loaded"
    /\ exitCode = None
    /\ startKey = None
    /\ calls = [c \in CallIds |-> IdleCall]

\* Variants of the two credential tests that take an empty string for a key
\* (`apiKey === undefined`).
StartupKeyMissing_OnlyUnset(apiKey) == apiKey = None
HandlerKeyMissing_OnlyUnset(apiKey) == apiKey = None

\* A variant of HandlerKey that uses the credential startServer read.
HandlerKey_AtStartup == Get(startKey)

\* line 362: `!apiKey` in startServer.
StartupKeyMissing(apiKey) == FalsyStr(apiKey)

\* lines 165 and 229: `!apiKey` in the handlers.
HandlerKeyMissing(apiKey) == FalsyStr(apiKey)

\* line 163 / 227: the credential a handler reads when it is invoked.
HandlerKey == env

\* lines 356-370: startServer up to its await of server.connect.
StartServer ==
    /\ proc = "loaded"
    /\ startKey' = Some(env)
    /\ IF StartupKeyMissing(env)
       THEN proc' = "exited" /\ exitCode' = Some(1)
       ELSE proc' = "connecting" /\ exitCode' = exitCode
    /\ UNCHANGED <<env, calls>>

\* lines 369-375: server.connect settles.
ConnectSettle(ok) ==
    /\ proc = "connecting"
    /\ IF ok
       THEN proc' = "serving" /\ exitCode' = exitCode
       ELSE proc' = "exited" /\ exitCode' = Some(1)
    /\ UNCHANGED <<env, startKey, calls>>

\* The environment variable is changed from outside the handlers while the
\* process runs.
SetEnv(v) ==
    /\ proc # "exited"
    /\ v # env
    /\ env' = v
    /\ UNCHANGED <<proc, exitCode, startKey, calls>>

\* The transport dispatches the c-th tool call: the calls are numbered in
\* the order they are invoked.
CanInvoke(c) ==
    /\ proc = "serving"
    /\ calls[c].pc = "idle"
    /\ \A d \in CallIds : d < c => calls[d].pc # "idle"

Finish(call, end) ==
    [call EXCEPT !.pc = "done", !.result = end.result, !.threw = end.threw,
                 !.logged = end.logged]

\* lines 161-187: the search handler up to the fetch inside search().
SearchStart(c, req) ==
    /\ CanInvoke(c)
    /\ LET apiKey == HandlerKey
           started == [calls[c] EXCEPT !.tool = "search", !.req = Some(req),
                                       !.apiKey = apiKey]
       IN  calls' = [calls EXCEPT ![c] =
               IF HandlerKeyMissing(apiKey)
               THEN Finish(started, NoKeyEnd)
               ELSE [started EXCEPT !.pc = "awaitFetch",
                         !.sent = <<SearchHttpRequest(req, Get(apiKey))>>]]
    /\ UNCHANGED <<env, proc, exitCode, startKey>>

\* lines 103-112 (and the catch, 206-217): the fetch of a search call settles.
SearchFetchSettle(c, o) ==
    /\ calls[c].pc = "awaitFetch" /\ calls[c].tool = "search"
    /\ LET r == SearchAfterFetch(o)
           got == [calls[c] EXCEPT !.fetched = Some(o)]
       IN  calls' = [calls EXCEPT ![c] =
               IF r.ok THEN [got EXCEPT !.pc = "awaitJson"]
               ELSE Finish(got, SearchEnd(r))]
    /\ UNCHANGED <<env, proc, exitCode, startKey>>

\* lines 112-113, 189-217: response.json() of a search call settles and the
\* handler formats the result.
SearchJsonSettle(c, b) ==
    /\ calls[c].pc = "awaitJson" /\ calls[c].tool = "search"
    /\ LET r == AfterJson(b)
           got == [calls[c] EXCEPT !.body = Some(b)]
       IN  calls' = [calls EXCEPT ![c] =
               Finish(got, SearchEnd(IF r.ok THEN FormatSearch(r.val) ELSE r))]
    /\ UNCHANGED <<env, proc, exitCode, startKey>>

\* lines 225-242: the quota handler up to the fetch inside getQuota().
QuotaStart(c) ==
    /\ CanInvoke(c)
    /\ LET apiKey == HandlerKey
           started == [calls[c] EXCEPT !.tool = "quota", !.apiKey = apiKey]
       IN  calls' = [calls EXCEPT ![c] =
               IF HandlerKeyMissing(apiKey)
               THEN Finish(started, NoKeyEnd)
               ELSE [started EXCEPT !.pc = "awaitFetch",
                         !.sent = <<QuotaHttpRequest(Get(apiKey))>>]]
    /\ UNCHANGED <<env, proc, exitCode, startKey>>

\* lines 124-133 (and the catch, 262-273).
QuotaFetchSettle(c, o) ==
    /\ calls[c].pc = "awaitFetch" /\ calls[c].tool = "quota"
    /\ LET r == QuotaAfterFetch(o)
           got == [calls[c] EXCEPT !.fetched = Some(o)]
       IN  calls' = [calls EXCEPT ![c] =
               IF r.ok THEN [got EXCEPT !.pc = "awaitJson"]
               ELSE Finish(got, QuotaEnd(r))]
    /\ UNCHANGED <<env, proc, exitCode, startKey>>

\* lines 133-134, 245-273.
QuotaJsonSettle(c, b) ==
    /\ calls[c].pc = "awaitJson" /\ calls[c].tool = "quota"
    /\ LET r == AfterJson(b)
           got == [calls[c] EXCEPT !.body = Some(b)]
       IN  calls' = [calls EXCEPT ![c] =
               Finish(got, QuotaEnd(IF r.ok THEN FormatQuota(r.val) ELSE r))]
    /\ UNCHANGED <<env, proc, exitCode, startKey>>

\* -------------------------------------------------------- specifications
Startup == StartServer \/ \E ok \in BOOLEAN : ConnectSettle(ok)

\* The whole server: several calls in flight, the environment changing.
Next ==
    \/ Startup
    \/ \E v \in EnvValues : SetEnv(v)
    \/ \E c \in CallIds, req \in SampleRequests : SearchStart(c, req)
    \/ \E c \in CallIds, o \in SampleFetchOutcomes : SearchFetchSettle(c, o)
    \/ \E c \in CallIds, b \in SampleSearchBodies : SearchJsonSettle(c, b)
    \/ \E c \in CallIds : QuotaStart(c)
    \/ \E c \in CallIds, o \in SampleFetchOutcomes : QuotaFetchSettle(c, o)
    \/ \E c \in CallIds, b \in SampleQuotaBodies : QuotaJsonSettle(c, b)

Spec == Init /\ [][Next]_vars

\* One search call over every argument list the schema lets through.
NextQuery ==
    \/ Startup
    \/ CanInvoke(1) /\ \E req \in SearchRequests : SearchStart(1, req)

SpecQuery == Init /\ [][NextQuery]_vars

\* One search call over every provider reply.
NextSearch ==
    \/ Startup
    \/ \E req \in SampleRequests : SearchStart(1, req)
    \/ \E o \in FetchOutcomes : SearchFetchSettle(1, o)
    \/ \E b \in SearchBodies : SearchJsonSettle(1, b)

SpecSearch == Init /\ [][NextSearch]_vars

\* One quota call over every provider reply.
NextQuota ==
    \/ Startup
    \/ QuotaStart(1)
    \/ \E o \in FetchOutcomes : QuotaFetchSettle(1, o)
    \/ \E b \in QuotaBodies : QuotaJsonSettle(1, b)

SpecQuota == Init /\ [][NextQuota]_vars

\* ------------------------------------------------------------ properties
Done(c) == calls[c].pc = "done"
TheResult(c) == calls[c].result[1]
TheText(c) == TheResult(c).content[1].text

\* s has sub as a contiguous part.
Contains(s, sub) ==
    \E i \in 0..(Len(s) - Len(sub)) : SubSeq(s, i + 1, i + Len(sub)) = sub

\* A tool response as the transport expects it: one text content block and a
\* boolean error flag.
WellFormedResponse(r) ==
    /\ DOMAIN r = {"content", "isError"}
    /\ r.isError \in BOOLEAN
    /\ Len(r.content) = 1
    /\ r.content[1].type = "text"
    /\ Len(r.content[1].text) >= 1

NonOkStatus(o) == o.kind = "response" /\ (o.status < 200 \/ o.status > 299)

\* The outbound call of c has failed: the network, the status, or the parse.
OutboundFailed(c) ==
    \/ calls[c].fetched # None
       /\ (Get(calls[c].fetched).kind = "reject" \/ NonOkStatus(Get(calls[c].fetched)))
    \/ calls[c].body # None /\ Get(calls[c].body).kind = "syntaxError"

\* The body parsed, and its data lacks what the handler reads.
DataLacksFields(c) ==
    /\ calls[c].body # None
    /\ Get(calls[c].body).kind # "syntaxError"
    /\ \/ Get(calls[c].body).data = None
       \/ calls[c].tool = "search" /\ Get(Get(calls[c].body).data).results = None
       \/ calls[c].tool = "quota"
          /\ (Get(Get(calls[c].body).data).plan = None
              \/ Get(Get(calls[c].body).data).quota = None)

\* C1: every invocation of search or quota ends by returning exactly one
\* well-formed tool response and never throws past the handler, whatever the
\* outbound call settles with (network failure, non-2xx, parse failure, data
\* lacking the expected fields); an invocation that has not ended has
\* returned nothing; and no call takes the connected process down.
C1_AlwaysOneResponse ==
    \A c \in CallIds :
        /\ ~calls[c].threw
        /\ Done(c) <=> Len(calls[c].result) = 1
        /\ ~Done(c) => calls[c].result = <<>>
        /\ Done(c) => WellFormedResponse(TheResult(c))
        /\ (OutboundFailed(c) \/ DataLacksFields(c) \/ calls[c].body # None) => Done(c)
        /\ (OutboundFailed(c) \/ DataLacksFields(c)) => TheResult(c).isError
        /\ calls[c].pc # "idle" => proc = "serving" /\ exitCode = None

\* Two calls have ended, one after a network failure or a non-2xx status,
\* one after a body that could not be parsed or lacked its data.
C1_Witness ==
    \E c, d \in CallIds :
        /\ Done(c) /\ calls[c].fetched # None /\ calls[c].body = None
        /\ Done(d) /\ calls[d].body # None /\ TheResult(d).isError
        /\ proc = "serving"

\* C2: a process that found the credential unset or empty when startServer
\* read it has exited with code 1 without ever connecting, and serves no
\* tool call.
C2_NoKeyNoServing ==
    (startKey # None /\ (Get(startKey) = None \/ Get(startKey) = Some("")))
    => /\ proc = "exited"
       /\ exitCode = Some(1)
       /\ \A c \in CallIds : calls[c] = IdleCall

\* startServer ran with an empty credential and the process is gone.
C2_Witness ==
    /\ startKey = Some(Some(""))
    /\ proc = "exited"
    /\ exitCode = Some(1)

\* C3: a search or quota call that finds the credential unset or empty when
\* it is invoked has returned the error-flagged "not set" response, has sent
\* no HTTP request, and the process keeps serving.
C3_MissingKeyResponse ==
    \A c \in CallIds :
        (calls[c].pc # "idle" /\ (calls[c].apiKey = None \/ calls[c].apiKey = Some("")))
        => /\ Done(c)
           /\ calls[c].result =
                <<[content |-> <<[type |-> "text", text |->
                     <<"Error: TUNINGSEARCH_API_KEY environment variable is not set">>]>>,
                   isError |-> TRUE]>>
           /\ calls[c].sent = <<>>
           /\ ~calls[c].threw
           /\ proc = "serving" /\ exitCode = None

\* A call was refused for the missing credential and a later call is being
\* served by the same process.
C3_Witness ==
    \E c, d \in CallIds :
        /\ c < d
        /\ Done(c) /\ calls[c].apiKey \in {None, Some("")} /\ calls[c].sent = <<>>
        /\ calls[d].pc = "awaitFetch"

\* C4: a search call whose request got a non-2xx response has returned an
\* error-flagged response whose text contains the decimal status code, and
\* has sent exactly one request.
C4_NonOkStatusIsError ==
    \A c \in CallIds :
        (calls[c].tool = "search" /\ calls[c].fetched # None
         /\ NonOkStatus(Get(calls[c].fetched)))
        => /\ Done(c)
           /\ Len(calls[c].result) = 1
           /\ TheResult(c).isError
           /\ Contains(TheText(c), IntToString(Get(calls[c].fetched).status))
           /\ Len(calls[c].sent) = 1
           /\ ~calls[c].threw

\* A search call has ended after a 500.
C4_Witness ==
    \E c \in CallIds :
        /\ calls[c].tool = "search" /\ Done(c)
        /\ calls[c].fetched # None
        /\ Get(calls[c].fetched).status = 500

\* ------------------------------------------- reading a query string back
\* The parts of s between the occurrences of ch: part k lies between the
\* (k-1)-th and the k-th occurrence.
SplitOn(s, ch) ==
    LET at == {i \in 1..Len(s) : s[i] = ch}
        Kth(k) == IF k = 0 THEN 0
                  ELSE IF k > Cardinality(at) THEN Len(s) + 1
                  ELSE CHOOSE i \in at : Cardinality({j \in at : j <= i}) = k
    IN  [k \in 1..(Cardinality(at) + 1) |-> SubSeq(s, Kth(k - 1) + 1, Kth(k) - 1)]

CharOfHex(h) ==
    CASE h = <<"2", "6">> -> "&"
      [] h = <<"3", "D">> -> "="
      [] h = <<"2", "B">> -> "+"
      [] h = <<"2", "5">> -> "%"
      [] h = <<"3", "F">> -> "?"
      [] h = <<"2", "3">> -> "#"
      [] OTHER -> "<bad escape>"

\* application/x-www-form-urlencoded decoding: "+" is a space, %XX a byte.
RECURSIVE FormDecode(_)
FormDecode(s) ==
    IF s = <<>> THEN <<>>
    ELSE IF Head(s) = "+" THEN <<" ">> \o FormDecode(Tail(s))
    ELSE IF Head(s) = "%" /\ Len(s) >= 3
    THEN <<CharOfHex(SubSeq(s, 2, 3))>> \o FormDecode(SubSeq(s, 4, Len(s)))
    ELSE <<Head(s)>> \o FormDecode(Tail(s))

\* name=value, split at the first "=".
ParsePair(p) ==
    LET parts == SplitOn(p, "=")
    IN  << FormDecode(parts[1]),
           FormDecode(Join(Tail(parts), <<"=">>)) >>

\* The <<name, value>> pairs the receiver of query string qs reads.
ParseQuery(qs) ==
    LET ps == SplitOn(qs, "&") IN [i \in 1..Len(ps) |-> ParsePair(ps[i])]

NameQ == <<"q">>
NameLanguage == <<"l", "a", "n", "g", "u", "a", "g", "e">>
NamePage == <<"p", "a", "g", "e">>
NameSafe == <<"s", "a", "f", "e">>
NameTimeRange == <<"t", "i", "m", "e", "_", "r", "a", "n", "g", "e">>

\* The values pairs gives for name, in order.
ValuesOf(pairs, name) ==
    LET F[i \in 0..Len(pairs)] ==
            IF i = 0 THEN <<>>
            ELSE IF pairs[i][1] = name THEN F[i - 1] \o <<pairs[i][2]>> ELSE F[i - 1]
    IN  F[Len(pairs)]

DigitValue(d) ==
    CASE d = "0" -> 0 [] d = "1" -> 1 [] d = "2" -> 2 [] d = "3" -> 3 [] d = "4" -> 4
      [] d = "5" -> 5 [] d = "6" -> 6 [] d = "7" -> 7 [] d = "8" -> 8 [] d = "9" -> 9
      [] OTHER -> 0 - 1

\* The number a string of decimal digits denotes; -1 for any other string.
ParseNat(ds) ==
    LET F[i \in 0..Len(ds)] ==
            IF i = 0 THEN 0
            ELSE IF DigitValue(ds[i]) < 0 \/ F[i - 1] < 0 THEN 0 - 1
            ELSE 10 * F[i - 1] + DigitValue(ds[i])
    IN  IF ds = <<>> THEN 0 - 1 ELSE F[Len(ds)]

\* A SearchRequest as section 3 of the specification admits it.
ValidRequest(req) ==
    /\ req.query # <<>>
    /\ req.page # None => Get(req.page) >= 1

\* Supplied optional o appears once, carrying value v; absent, not at all.
ExactlyIfSupplied(pairs, name, o, v) ==
    ValuesOf(pairs, name) = (IF o = None THEN <<>> ELSE <<v>>)

\* The search call c has handed a request to fetch.
SentSearch(c) == calls[c].tool = "search" /\ calls[c].sent # <<>>

\* C5: for every valid SearchRequest the query string search() builds
\* carries q with the query as its value (literally `q=<query>` when the
\* query has no character the serializer escapes) and, of language, page,
\* safe and time_range, exactly the supplied ones, each once with the value
\* supplied (for safe: some value), and no other parameter.
C5_ExactlySuppliedParams ==
    \A c \in CallIds :
        (SentSearch(c) /\ ValidRequest(Get(calls[c].req)))
        => LET req == Get(calls[c].req)
               qs == calls[c].sent[1].query
           IN  \A pairs \in {ParseQuery(qs)} :
               /\ ValuesOf(pairs, NameQ) = <<req.query>>
               /\ pairs[1][1] = NameQ
               /\ (\A i \in 1..Len(req.query) : req.query[i] = "a")
                  => SubSeq(qs, 1, 2 + Len(req.query)) = <<"q", "=">> \o req.query
               /\ ExactlyIfSupplied(pairs, NameLanguage, req.language,
                                    IF req.language = None THEN <<>> ELSE Get(req.language))
               /\ ExactlyIfSupplied(pairs, NameTimeRange, req.time_range,
                                    IF req.time_range = None THEN <<>>
                                    ELSE Get(req.time_range))
               /\ req.page # None
                  => /\ Len(ValuesOf(pairs, NamePage)) = 1
                     /\ ParseNat(ValuesOf(pairs, NamePage)[1]) = Get(req.page)
               /\ req.page = None => ValuesOf(pairs, NamePage) = <<>>
               /\ Len(ValuesOf(pairs, NameSafe)) = (IF req.safe = None THEN 0 ELSE 1)
               /\ \A i \in 1..Len(pairs) :
                      pairs[i][1] \in {NameQ, NameLanguage, NamePage, NameSafe,
                                       NameTimeRange}

\* A request went out for a query with a space and an ampersand, with
\* language and safe supplied and page and time_range absent.
C5_Witness ==
    /\ SentSearch(1)
    /\ Get(calls[1].req).query = <<" ", "&">>
    /\ Get(calls[1].req).language = Some(<<"z", "h", "-", "C", "N">>)
    /\ Get(calls[1].req).page = None
    /\ Get(calls[1].req).safe = Some(0)
    /\ Get(calls[1].req).time_range = None

\* C6: the safe parameter of the query string is "0" when the level given is
\* 0, "1" when it is 1 or 2, and is not sent when no level is given.
C6_SafeIsZeroOrOne ==
    \A c \in CallIds :
        SentSearch(c)
        => LET req == Get(calls[c].req)
           IN  \A sent \in {ValuesOf(ParseQuery(calls[c].sent[1].query), NameSafe)} :
               /\ req.safe = Some(0) => sent = << <<"0">> >>
               /\ req.safe = Some(1) => sent = << <<"1">> >>
               /\ req.safe = Some(2) => sent = << <<"1">> >>
               /\ req.safe = None => sent = <<>>

\* A request went out for safe = 2 and carries safe=1.
C6_Witness ==
    /\ SentSearch(1)
    /\ Get(calls[1].req).safe = Some(2)
    /\ Contains(calls[1].sent[1].query, <<"s", "a", "f", "e", "=", "1">>)

\* The search call c got a body whose data holds a result list.
SearchSucceeded(c) ==
    /\ calls[c].tool = "search" /\ Done(c)
    /\ calls[c].body # None
    /\ Get(calls[c].body).kind = "object"
    /\ Get(calls[c].body).data # None
    /\ Get(Get(calls[c].body).data).results # None

TheData(c) == Get(Get(calls[c].body).data)
SuggestionsOf(d) == IF d.suggestions = None THEN <<>> ELSE Get(d.suggestions)

\* C7: the text of a successful search response is `Query: "<query>"`, a
\* blank line, one Title/Content/Link block per result in the provider's
\* order with one blank line between blocks, and then, if and only if there
\* is at least one suggestion, a blank line and `Suggested queries: ` with
\* the suggestions joined by `, `.
C7_SearchTextLayout ==
    \A c \in CallIds :
        SearchSucceeded(c)
        => LET d == TheData(c)
               text == TheText(c)
               rs == Get(d.results)
               n == Len(rs)
               sg == SuggestionsOf(d)
               m == Len(sg)
               p == 4 + (IF n = 0 THEN 0 ELSE 9 * n - 1)
           IN  /\ ~TheResult(c).isError
               /\ text[1] = "Query: \"" /\ text[3] = "\"" /\ text[4] = "\n\n"
               /\ d.query # None => text[2] = Get(d.query)
               /\ \A i \in 1..n :
                      /\ SubSeq(text, 9 * i - 4, 9 * i + 3)
                           = <<"Title: ", rs[i].title, "\n", "Content: ", rs[i].content,
                               "\n", "Link: ", rs[i].url>>
                      /\ i < n => text[9 * i + 4] = "\n\n"
               /\ m = 0 => Len(text) = p
               /\ m > 0 => /\ Len(text) = p + 2 * m + 1
                           /\ text[p + 1] = "\n\n"
                           /\ text[p + 2] = "Suggested queries: "
                           /\ \A j \in 1..m :
                                  /\ text[p + 2 * j + 1] = sg[j]
                                  /\ j < m => text[p + 2 * j + 2] = ", "
               /\ (\E i \in 1..Len(text) : text[i] = "Suggested queries: ") <=> m > 0

\* A search succeeded with two results and two suggestions.
C7_Witness ==
    \E c \in CallIds :
        /\ SearchSucceeded(c)
        /\ Len(Get(TheData(c).results)) = 2
        /\ Len(SuggestionsOf(TheData(c))) = 2

\* The provider returned an empty result list and no suggestion.
EmptySearch(c) ==
    /\ SearchSucceeded(c)
    /\ TheData(c).query # None
    /\ Get(TheData(c).results) = <<>>
    /\ SuggestionsOf(TheData(c)) = <<>>

\* C8 as stated: for an empty result list without suggestions the text is
\* the header `Query: "<query>"` and nothing after it.
C8_HeaderOnly ==
    \A c \in CallIds :
        EmptySearch(c) => TheText(c) = <<"Query: \"", Get(TheData(c).query), "\"">>

\* C8 as amended: for an empty result list without suggestions the text is
\* the header `Query: "<query>"` followed by the two line breaks of the
\* blank line, with no item block and nothing else.
C8_HeaderThenBlankLine ==
    \A c \in CallIds :
        EmptySearch(c)
        => TheText(c) = <<"Query: \"", Get(TheData(c).query), "\"", "\n\n">>

\* A search succeeded with an empty result list and an empty suggestion list.
C8_Witness ==
    \E c \in CallIds : EmptySearch(c) /\ TheData(c).suggestions = Some(<<>>)

\* The quota call c got a complete body whose totalQuota is 0.
ZeroTotalQuota(c) ==
    /\ calls[c].tool = "quota" /\ Done(c)
    /\ calls[c].body # None
    /\ Get(calls[c].body).kind = "object"
    /\ Get(calls[c].body).data # None
    /\ TheData(c).quota # None
    /\ TheData(c).plan # None
    /\ Get(TheData(c).plan).features # None
    /\ Get(TheData(c).quota).totalQuota = 0

\* The atom that follows `Quota Usage: ` in text.
UsageField(text) ==
    text[(CHOOSE i \in 1..Len(text) : text[i] = "Quota Usage: ") + 1]

\* a renders a quantity: a digit string, or an infinity.
RendersQuantity(a) ==
    a \in {"0", "1", "2", "3", "4", "5", "6", "7", "8", "9", "-",
           "Infinity", "-Infinity"}

\* C9: for totalQuota = 0 the quota tool does not throw and returns a
\* non-error response whose usage percentage is a marker of an undefined
\* value, not a quantity.
C9_ZeroTotalIsMarkedUndefined ==
    \A c \in CallIds :
        ZeroTotalQuota(c)
        => /\ ~calls[c].threw
           /\ ~TheResult(c).isError
           /\ \E i \in 1..Len(TheText(c)) : TheText(c)[i] = "Quota Usage: "
           /\ ~RendersQuantity(UsageField(TheText(c)))

\* The part of C9 the code satisfies: for totalQuota = 0 nothing is thrown
\* and the response is not an error.
ZeroTotalDoesNotThrow ==
    \A c \in CallIds : ZeroTotalQuota(c) => ~calls[c].threw /\ ~TheResult(c).isError

\* What decides the response of a call: its tool, its arguments, the
\* credential it read and what the provider replied to it.
InputsOf(c) ==
    <<calls[c].tool, calls[c].req, calls[c].apiKey, calls[c].fetched, calls[c].body>>

\* One step, as the calls see it.
StepIndependent ==
    /\ \A c \in CallIds :
           \* a call reads the credential as it is when the call starts,
           /\ (calls[c].pc = "idle" /\ calls'[c].pc # "idle") => calls'[c].apiKey = env
           \* keeps it, and the request made with it, until it ends,
           /\ calls[c].pc # "idle"
              => /\ calls'[c].apiKey = calls[c].apiKey
                 /\ calls'[c].sent = calls[c].sent
                 /\ calls'[c].req = calls[c].req
           \* and a step of one call leaves every other call alone.
           /\ calls'[c] # calls[c]
              => \A d \in CallIds \ {c} : calls'[d] = calls[d]
    \* No step of a call changes the credential or the process.
    /\ calls' # calls => env' = env /\ proc' = proc /\ startKey' = startKey

\* Two ended calls with the same inputs have returned the same response,
\* whatever else happened in between.
ResponseDetermined ==
    \A c, d \in CallIds :
        (Done(c) /\ Done(d) /\ InputsOf(c) = InputsOf(d))
        => calls[c].result = calls[d].result

\* C10: tool calls are independent under any interleaving: each reads the
\* credential once, when it starts, and keeps that value while it awaits the
\* provider even if the variable changes; its response depends only on its
\* own arguments, that credential and its own provider reply; and no call
\* changes state another call reads.
C10_CallsIndependent == [][StepIndependent]_vars /\ []ResponseDetermined

\* A call awaits the provider with the key it read while the variable has
\* since changed, and a later call has started with the new value.
C10_Witness ==
    \E c, d \in CallIds :
        /\ c < d
        /\ calls[c].pc \in {"awaitFetch", "awaitJson"}
        /\ calls[c].apiKey # env
        /\ calls[d].pc # "idle"
        /\ calls[d].apiKey = env

====
